---- MODULE Spec2Model ----
(***************************************************************************)
(* The WebSocket chat transport of the chat package: WebSocketTransport    *)
(* (connect with retry/backoff, send, listener registry, inbound frame     *)
(* dispatch, heartbeat, disconnect), ProtocolNormalizer, StreamBuffer and  *)
(* the createChat facade that drives the transport with one conversation.  *)
(* Also the config merge of the init_session frame and the url-session     *)
(* token module (getUrlSessionToken with its cache and request dedup).     *)
(*                                                                         *)
(* Text is a sequence of characters; a socket is an index into `sockets`;  *)
(* 0 stands for null.  One step of the model is one task of the event      *)
(* loop: a public call, a socket event or a timer, together with the       *)
(* promise continuations it schedules (they run before the next task).     *)
(***************************************************************************)
EXTENDS Integers, Sequences, FiniteSets, TLC

\* ------------------------------------------------------------ bounds
MaxSockets == 4
MaxCalls == 2
MaxSends == 2
MaxBeats == 1
MaxListeners == 3
MaxText == 2
FewSockets == 1
SendSockets == 2
MaxTokenCalls == 3
MaxTicks == 4
TickMs == 150000

\* ------------------------------------------- configuration (defaults)
maxRetries == 2
initialDelay == 1000
maxDelay == 60000
backoffMultiplier == 2
timeout == 30000
CACHE_TTL_MS == 300000

ConversationId == "conv-1"
AppId == "app-1"

VARIABLES
    sockets,          \* every WebSocket the transport created, in creation order
    ws,               \* this.ws: index of the referenced socket, 0 = null
    calls,            \* the connect() calls made so far, each with its position
    currentRetry,     \* this.currentRetry
    conversationId,   \* this.conversationId
    heartbeatTimer,   \* this.heartbeatTimer: id of the interval, 0 = null
    timers,           \* the interval timers that are active in the host
    listeners,        \* this.listeners
    nextListenerId,   \* this.nextListenerId
    released,         \* the listener ids whose unsubscribe function has been called
    twice,            \* whether an unsubscribe function has been called a second time
    streamBuffer,     \* StreamBuffer.buffer: key -> accumulated text
    nextTok,          \* number of send/sendUserMessage/interrupt calls made, plus 1
    refused,          \* the calls among them that threw 'WebSocket not connected'
    session,          \* socket of the connection the latest resolved connect() set up
    notified,         \* the listener callbacks invoked by the latest inbound payload
    lastFrame,        \* the latest inbound payload
    thrown,           \* whether the latest message handler let an exception escape
    stream,           \* the listener callbacks seen since the latest content_block_start
    unknownSeen,      \* whether a payload of an unknown type has been received
    echo,             \* what the latest sendMessage() call of the facade came to
    defaultSessionConfig,  \* this.defaultSessionConfig
    sessionConfig,    \* the sessionConfig argument of the latest connect()
    initConfig,       \* the config of the init_session frame built from the two
    cachedToken,      \* cachedToken of the url-session module, <<>> = null
    cacheExpiry,      \* cacheExpiry
    pendingRequest,   \* pendingRequest: the request it refers to, 0 = null
    requests,         \* the auth-service requests issued so far
    now,              \* Date.now()
    tokenCalls,       \* the getUrlSessionToken() calls made so far
    lastOutcome,      \* how the request that completed last ended
    serverMsg,        \* the frame given to ProtocolNormalizer.normalize
    normalized,       \* what normalize returned for it
    streamLog,        \* the stream events received, as the server sent them
    upset,            \* what a listener callback did during the latest fan-out
    requestAccess,    \* the access token each auth-service request was made with
    callAccess,       \* the access token of each getUrlSessionToken() call
    callSource,       \* the request whose token each call was answered with
    cachedBy,         \* the request that stored cachedToken, 0 = none
    stale             \* the requests that were in flight at a cache clear

vars == <<sockets, ws, calls, currentRetry, conversationId, heartbeatTimer, timers,
          listeners, nextListenerId, released, twice, streamBuffer, nextTok, refused, session,
          notified, lastFrame, thrown, stream, unknownSeen,
          echo, defaultSessionConfig, sessionConfig, initConfig,
          cachedToken, cacheExpiry, pendingRequest, requests, now, tokenCalls,
          lastOutcome, serverMsg, normalized, streamLog, upset,
          requestAccess, callAccess, callSource, cachedBy, stale>>

connVars == <<sockets, ws, calls, currentRetry, conversationId, heartbeatTimer, timers>>
registryVars == <<listeners, nextListenerId, released, twice>>
sendVars == <<nextTok, refused>>
dispatchVars == <<notified, lastFrame, thrown, stream, unknownSeen>>
transportVars == <<connVars, registryVars, sendVars, dispatchVars, streamBuffer, session>>
chatVars == <<echo>>
configVars == <<defaultSessionConfig, sessionConfig, initConfig>>
tokenVars == <<cachedToken, cacheExpiry, pendingRequest, requests, now, tokenCalls,
               lastOutcome>>
lateVars == <<serverMsg, normalized, streamLog, upset, requestAccess, callAccess,
              callSource, cachedBy, stale>>
otherVars == <<chatVars, configVars, tokenVars, lateVars>>

\* ------------------------------------------------------------ helpers
Min(a, b) == IF a <= b THEN a ELSE b

RECURSIVE Pow(_, _)
Pow(b, e) == IF e = 0 THEN 1 ELSE b * Pow(b, e - 1)

\* errors (errors.ts)
ConnectionError == [name |-> "ConnectionError", timeout |-> 0]
ConnectionTimeoutError(t) == [name |-> "ConnectionTimeoutError", timeout |-> t]
NoError == [name |-> "none", timeout |-> 0]

\* getRetryDelay(attempt)
getRetryDelay(attempt) ==
    Min(initialDelay * Pow(backoffMultiplier, attempt), maxDelay)

\* isConnected(): this.ws?.readyState === WebSocket.OPEN
isConnected(w, socks) == w # 0 /\ socks[w].state = "OPEN"

SendRefusedNullOnly(w, socks) == w = 0

\* the guard of send(): !this.ws || this.ws.readyState !== WebSocket.OPEN
SendRefused(w, socks) == w = 0 \/ socks[w].state # "OPEN"

\* this.ws.send(JSON.stringify(message)) on the referenced socket
Transmit(w, socks, frame) == [socks EXCEPT ![w].sent = Append(@, frame)]

ClientFrame(type, tok, call) == [type |-> type, tok |-> tok, call |-> call]

StoppedTimersKept(hb, ts) == ts

\* stopHeartbeat(): clearInterval(this.heartbeatTimer)
StoppedTimers(hb, ts) == IF hb # 0 THEN ts \ {hb} ELSE ts

\* setInterval: a timer id the host is not using
FreshTimer(ts) == CHOOSE t \in 1..(Cardinality(ts) + 1) : t \notin ts

\* startHeartbeat(): stop the old timer, then start a new one
StartedTimer(hb, ts) == FreshTimer(StoppedTimers(hb, ts))

\* ------------------------------------------------- connect and retry
\* new WebSocket(this.wsURL) with the handlers and the timeout of one attempt
NewSocket(c) ==
    [state |-> "CONNECTING", sent |-> <<>>, call |-> c, settled |-> FALSE,
     timer |-> TRUE, failing |-> FALSE]

NewCall ==
    [pc |-> "attempt", attempts |-> 1, waits |-> <<>>, err |-> NoError]

\* isLastAttempt: this.currentRetry >= this.retryConfig.maxRetries
isLastAttempt(retry) == retry >= maxRetries

\* The catch block of connect() for call c, whose attempt was rejected with err.
CatchAttempt(cs, c, err, retry) ==
    IF isLastAttempt(retry)
    THEN [cs EXCEPT ![c].pc = "rejected", ![c].err = err]
    ELSE [cs EXCEPT ![c].pc = "sleep", ![c].err = err,
                    ![c].waits = Append(@, getRetryDelay(retry))]

\* reject(err) of the attempt on socket s: a settled promise ignores it.
Reject(cs, socks, s, err, retry) ==
    IF socks[s].settled THEN cs ELSE CatchAttempt(cs, socks[s].call, err, retry)

\* the condition of the attempt's timeout: this.ws?.readyState !== WebSocket.OPEN
TimedOut(w, socks) == w = 0 \/ socks[w].state # "OPEN"

\* the loop condition of connect()
RetryAllowed(retry) == retry <= maxRetries

\* connect(): a new call; the facade passes config.conversationId.
Connect ==
    /\ Len(calls) < MaxCalls
    /\ Len(sockets) < MaxSockets
    /\ conversationId' = ConversationId
    /\ currentRetry' = 0
    /\ calls' = Append(calls, NewCall)
    /\ sockets' = Append(sockets, NewSocket(Len(calls) + 1))
    /\ ws' = Len(sockets) + 1
    /\ session' = 0
    /\ UNCHANGED <<heartbeatTimer, timers, registryVars, streamBuffer, sendVars,
                   dispatchVars>>

\* The socket reaches OPEN and its onopen handler runs.
SocketOpen(s) ==
    /\ sockets[s].state = "CONNECTING"
    /\ LET opened == [sockets EXCEPT ![s].state = "OPEN"]
           c == sockets[s].call
       IN IF SendRefused(ws, opened)
          THEN \* this.send throws: the rest of the handler does not run
               /\ sockets' = opened
               /\ UNCHANGED <<calls, currentRetry, heartbeatTimer, timers, session>>
          ELSE /\ sockets' = [Transmit(ws, opened, ClientFrame("init_session", 0, c))
                                 EXCEPT ![s].settled = TRUE, ![s].timer = FALSE]
               /\ heartbeatTimer' = StartedTimer(heartbeatTimer, timers)
               /\ timers' = StoppedTimers(heartbeatTimer, timers) \cup {heartbeatTimer'}
               /\ currentRetry' = 0
               /\ calls' = IF sockets[s].settled THEN calls
                           ELSE [calls EXCEPT ![c].pc = "resolved"]
               /\ session' = IF sockets[s].settled THEN session ELSE ws
    /\ UNCHANGED <<ws, conversationId, registryVars, streamBuffer, sendVars, dispatchVars>>

\* The connection fails: the error event, then the close event.
SocketFail(s) ==
    /\ sockets[s].state \in {"CONNECTING", "OPEN"}
    /\ sockets' = [sockets EXCEPT ![s].state = "CLOSED", ![s].settled = TRUE,
                                  ![s].timer = FALSE]
    /\ calls' = Reject(calls, sockets, s, ConnectionError, currentRetry)
    /\ timers' = StoppedTimers(heartbeatTimer, timers)
    /\ heartbeatTimer' = 0
    /\ session' = IF session = s THEN 0 ELSE session
    /\ UNCHANGED <<ws, currentRetry, conversationId, registryVars, streamBuffer,
                   sendVars, dispatchVars>>

\* The socket closes (by the server, or after close()): the close event, preceded
\* by the error event when close() was called before the connection was made.
SocketClose(s) ==
    /\ sockets[s].state \in {"OPEN", "CLOSING"}
    /\ sockets' = [sockets EXCEPT ![s].state = "CLOSED",
                                  ![s].settled = @ \/ sockets[s].failing,
                                  ![s].timer = @ /\ ~sockets[s].failing]
    /\ calls' = IF sockets[s].failing
                THEN Reject(calls, sockets, s, ConnectionError, currentRetry)
                ELSE calls
    /\ timers' = StoppedTimers(heartbeatTimer, timers)
    /\ heartbeatTimer' = 0
    /\ session' = IF session = s THEN 0 ELSE session
    /\ UNCHANGED <<ws, currentRetry, conversationId, registryVars, streamBuffer,
                   sendVars, dispatchVars>>

\* The timeout of the attempt on socket s elapses (timeouts are equal, so they
\* elapse in the order the attempts were started).  The timeout of a settled
\* attempt does nothing, so `timer` is dropped when the attempt settles.
Timeout(s) ==
    /\ sockets[s].timer
    /\ \A r \in 1..(s - 1) : ~sockets[r].timer
    /\ sockets' = [sockets EXCEPT ![s].timer = FALSE,
                                  ![s].settled = @ \/ TimedOut(ws, sockets)]
    /\ calls' = IF TimedOut(ws, sockets)
                THEN Reject(calls, sockets, s, ConnectionTimeoutError(timeout), currentRetry)
                ELSE calls
    /\ UNCHANGED <<ws, currentRetry, conversationId, heartbeatTimer, timers, session,
                   registryVars, streamBuffer, sendVars, dispatchVars>>

\* The backoff sleep of call c ends: currentRetry++, then the loop condition.
SleepDone(c) ==
    /\ calls[c].pc = "sleep"
    /\ currentRetry' = currentRetry + 1
    /\ IF RetryAllowed(currentRetry + 1)
       THEN /\ Len(sockets) < MaxSockets
            /\ calls' = [calls EXCEPT ![c].pc = "attempt", ![c].attempts = @ + 1]
            /\ sockets' = Append(sockets, NewSocket(c))
            /\ ws' = Len(sockets) + 1
       ELSE \* the loop ends and connect() returns
            /\ calls' = [calls EXCEPT ![c].pc = "resolved"]
            /\ UNCHANGED <<sockets, ws>>
    /\ UNCHANGED <<conversationId, heartbeatTimer, timers, session, registryVars,
                   streamBuffer, sendVars, dispatchVars>>

\* ------------------------------------------------ disconnect, heartbeat
\* WebSocket.close()
Closed(sock) ==
    IF sock.state = "CONNECTING" THEN [sock EXCEPT !.state = "CLOSING", !.failing = TRUE]
    ELSE IF sock.state = "OPEN" THEN [sock EXCEPT !.state = "CLOSING"]
    ELSE sock

DisconnectCancelling ==
    /\ timers' = StoppedTimers(heartbeatTimer, timers)
    /\ heartbeatTimer' = 0
    /\ sockets' = [s \in 1..Len(sockets) |->
                      [sockets[s] EXCEPT !.state = "CLOSED", !.settled = TRUE,
                                         !.timer = FALSE]]
    /\ calls' = [c \in 1..Len(calls) |->
                    IF calls[c].pc \in {"attempt", "sleep"}
                    THEN [calls[c] EXCEPT !.pc = "rejected"] ELSE calls[c]]
    /\ ws' = 0
    /\ session' = 0
    /\ UNCHANGED <<currentRetry, conversationId, registryVars, streamBuffer,
                   sendVars, dispatchVars>>

DisconnectResetting ==
    /\ timers' = StoppedTimers(heartbeatTimer, timers)
    /\ heartbeatTimer' = 0
    /\ sockets' = IF ws # 0 THEN [sockets EXCEPT ![ws] = Closed(@)] ELSE sockets
    /\ ws' = 0
    /\ session' = 0
    /\ listeners' = <<>>
    /\ nextListenerId' = 1
    /\ streamBuffer' = [k \in {} |-> <<>>]
    /\ UNCHANGED <<calls, currentRetry, conversationId, released, twice, sendVars,
                   dispatchVars>>

Disconnect ==
    /\ timers' = StoppedTimers(heartbeatTimer, timers)
    /\ heartbeatTimer' = 0
    /\ sockets' = IF ws # 0 THEN [sockets EXCEPT ![ws] = Closed(@)] ELSE sockets
    /\ ws' = 0
    /\ session' = 0
    /\ UNCHANGED <<calls, currentRetry, conversationId, registryVars, streamBuffer,
                   sendVars, dispatchVars>>

Beats(sent) == Cardinality({i \in 1..Len(sent) : sent[i].type = "heartbeat"})

\* One tick of an active interval timer.
HeartbeatTick(t) ==
    /\ t \in timers
    /\ isConnected(ws, sockets)
    /\ Beats(sockets[ws].sent) < MaxBeats
    /\ sockets' = Transmit(ws, sockets, ClientFrame("heartbeat", 0, 0))
    /\ UNCHANGED <<ws, calls, currentRetry, conversationId, heartbeatTimer, timers,
                   session, registryVars, streamBuffer, sendVars, dispatchVars>>

\* ---------------------------------------------------------------- send
SendOps == {"send", "sendUserMessage", "interrupt"}

FrameType(op) == IF op = "interrupt" THEN "interrupt" ELSE "user"

\* send(message), sendUserMessage(conversationId, content), interrupt()
Send(op) ==
    /\ nextTok <= MaxSends
    /\ nextTok' = nextTok + 1
    /\ IF SendRefused(ws, sockets)
       THEN /\ refused' = refused \cup {nextTok}
            /\ UNCHANGED sockets
       ELSE /\ Len(sockets[ws].sent) <= MaxSends
            /\ sockets' = Transmit(ws, sockets, ClientFrame(FrameType(op), nextTok, 0))
            /\ UNCHANGED refused
    /\ UNCHANGED <<ws, calls, currentRetry, conversationId, heartbeatTimer, timers,
                   session, registryVars, streamBuffer, dispatchVars>>

\* ------------------------------------------------------- inbound payloads
\* One inbound WebSocket payload: json tells whether JSON.parse accepts it and
\* whether it yields an object; the other fields are those of the parsed frame
\* (has* = the optional field is present).
NoSys == [session_id |-> "", model |-> "", seaverse_version |-> "", agents |-> "",
          tools |-> "", skills |-> "", cwd |-> ""]

Blank ==
    [json |-> "object", type |-> "", subtype |-> "", is_error |-> FALSE, text |-> <<>>,
     hasContent |-> FALSE, content |-> <<>>, hasEvent |-> FALSE, etype |-> "",
     hasDelta |-> FALSE, dtype |-> "", dtext |-> <<>>, dthinking |-> <<>>, sys |-> NoSys]

NoPayload == [Blank EXCEPT !.json = "none"]

Block(type, text) == [type |-> type, text |-> text]

StreamEvent(etype) == [Blank EXCEPT !.type = "stream_event", !.hasEvent = TRUE, !.etype = etype]

Delta(dtype, text, thinking) ==
    [StreamEvent("content_block_delta") EXCEPT !.hasDelta = TRUE, !.dtype = dtype,
                                               !.dtext = text, !.dthinking = thinking]

Assistant(content) == [Blank EXCEPT !.type = "assistant", !.hasContent = TRUE, !.content = content]

Result(subtype, is_error, text) ==
    [Blank EXCEPT !.type = "result", !.subtype = subtype, !.is_error = is_error, !.text = text]

StreamPayloads ==
    { StreamEvent("content_block_start"),
      Delta("text_delta", <<"a">>, <<>>),
      Delta("thinking_delta", <<>>, <<"b">>),
      Delta("text_delta", <<>>, <<"b">>),
      StreamEvent("content_block_delta"),
      StreamEvent("content_block_stop"),
      StreamEvent("message_stop"),
      [Blank EXCEPT !.type = "stream_event"] }

NormalPayloads ==
    { Assistant(<<Block("text", <<"h", "i">>)>>),
      Assistant(<<Block("text", <<"a">>), Block("thinking", <<"t">>), Block("text", <<"b">>)>>),
      Assistant(<<Block("thinking", <<"t">>)>>),
      Assistant(<<Block("tool_use", <<>>)>>),
      [Blank EXCEPT !.type = "assistant"],
      Result("success", FALSE, <<"o", "k">>),
      [Blank EXCEPT !.type = "media_result"],
      [Blank EXCEPT !.type = "session_initialized"],
      [Blank EXCEPT !.type = "system",
                    !.sys = [session_id |-> "s1", model |-> "m1", seaverse_version |-> "v1",
                             agents |-> "ag", tools |-> "to", skills |-> "sk", cwd |-> "/"]],
      [Blank EXCEPT !.type = "future_feature_x"] }

ErrorPayloads ==
    { Result("error", FALSE, <<"b", "a", "d">>),
      Result("success", TRUE, <<"b", "a", "d">>),
      Result("error", TRUE, <<>>),
      [Blank EXCEPT !.type = "error", !.text = <<"o", "o", "p", "s">>],
      [Blank EXCEPT !.json = "invalid"],
      [Blank EXCEPT !.json = "null"] }

Payloads == StreamPayloads \cup NormalPayloads \cup ErrorPayloads

\* the messages of the exceptions the host raises
SyntaxErrorText == <<"Unexpected token">>
TypeErrorText == <<"Cannot read properties">>
UnknownErrorText == <<"Unknown error">>
MediaText == <<"Generated media file">>

\* ------------------------------------------------------- StreamBuffer
getKey(conv) == <<conv, "_streaming">>

BufferGetUndefined(buf, key) == IF key \in DOMAIN buf THEN buf[key] ELSE <<"undefined">>

\* this.buffers.get(key) || ''
BufferGet(buf, key) == IF key \in DOMAIN buf THEN buf[key] ELSE <<>>

BufferSet(buf, key, text) ==
    [k \in DOMAIN buf \cup {key} |-> IF k = key THEN text ELSE buf[k]]

\* start(conversationId)
BufferStart(buf, conv) == BufferSet(buf, getKey(conv), <<>>)

\* append(conversationId, chunk)
BufferAppend(buf, conv, chunk) ==
    BufferSet(buf, getKey(conv), BufferGet(buf, getKey(conv)) \o chunk)

\* complete(conversationId): the content, and the buffer without the entry
BufferContent(buf, conv) == BufferGet(buf, getKey(conv))

BufferCompleteKeeping(buf, conv) == buf

BufferComplete(buf, conv) == [k \in DOMAIN buf \ {getKey(conv)} |-> buf[k]]

\* -------------------------------------------------- ProtocolNormalizer
AssistantMessage(conv, content) ==
    [role |-> "assistant", conversationId |-> conv, content |-> content]

RECURSIVE Join(_)
Join(texts) ==
    IF Len(texts) = 0 THEN <<>>
    ELSE IF Len(texts) = 1 THEN texts[1]
    ELSE texts[1] \o <<"\n">> \o Join(Tail(texts))

Returned(messages) == [error |-> FALSE, message |-> <<>>, messages |-> messages]
Raised(message) == [error |-> TRUE, message |-> message, messages |-> <<>>]

IsTextOrThinkingBlock(block) == block.type \in {"text", "thinking"}

IsTextBlock(block) == block.type = "text"

normalizeAssistantMessage(msg, conv) ==
    IF ~msg.hasContent THEN Returned(<<>>)
    ELSE LET textBlocks == SelectSeq(msg.content, IsTextBlock)
         IN IF Len(textBlocks) > 0
            THEN Returned(<<AssistantMessage(conv,
                     Join([i \in 1..Len(textBlocks) |-> textBlocks[i].text]))>>)
            ELSE Returned(<<>>)

normalizeMediaMessage(msg, conv) == Returned(<<AssistantMessage(conv, MediaText)>>)

IsErrorResultSubtypeOnly(msg) == msg.subtype = "error"

\* msg.subtype === 'error' || msg.is_error
IsErrorResult(msg) == msg.subtype = "error" \/ msg.is_error

\* msg.result || 'Unknown error'
ResultErrorText(msg) == IF msg.text # <<>> THEN msg.text ELSE UnknownErrorText

normalizeResultMessage(msg, conv) ==
    IF IsErrorResult(msg) THEN Raised(ResultErrorText(msg))
    ELSE Returned(<<AssistantMessage(conv, msg.text)>>)

normalizeUnknownRaises(msg) == Raised(<<"Unknown message type">>)

\* the default case of normalize
normalizeUnknown(msg) == Returned(<<>>)

normalize(msg, conv) ==
    CASE msg.type = "assistant" -> normalizeAssistantMessage(msg, conv)
      [] msg.type = "media_result" -> normalizeMediaMessage(msg, conv)
      [] msg.type = "result" -> normalizeResultMessage(msg, conv)
      [] msg.type = "system" -> Returned(<<>>)
      [] msg.type = "error" -> Raised(msg.text)
      [] msg.type = "session_initialized" -> Returned(<<>>)
      [] OTHER -> normalizeUnknown(msg)

\* ----------------------------------------------------- listener fan-out
StreamCallbackNames == {"onChunk", "onComplete", "onError", "onSystem"}

NoInfo == [sessionId |-> "", model |-> "", version |-> "", agents |-> "",
           tools |-> "", skills |-> ""]

\* One invocation of a listener callback with its argument.
Call(kind, role, conv, text, err, raw, info) ==
    [lid |-> 0, kind |-> kind, role |-> role, conv |-> conv, text |-> text,
     err |-> err, raw |-> raw, info |-> info]

MainCall(msg) ==
    Call("callback", msg.role, msg.conversationId, msg.content, "none", NoPayload, NoInfo)
ChunkCall(chunk) == Call("onChunk", "none", "", chunk, "none", NoPayload, NoInfo)
CompleteCall == Call("onComplete", "none", "", <<>>, "none", NoPayload, NoInfo)
SystemCall(info) == Call("onSystem", "none", "", <<>>, "none", NoPayload, info)

ParseErrorWithoutData(message, data) ==
    Call("onError", "none", "", message, "ParseError", NoPayload, NoInfo)

\* new ParseError(message, data)
ParseError(message, data) == Call("onError", "none", "", message, "ParseError", data, NoInfo)

\* new StreamError(message, conversationId)
StreamError(message, conv) ==
    Call("onError", "none", conv, message, "StreamError", NoPayload, NoInfo)

\* listener.callback is always there; listener.streamCallbacks?.name?.(...)
Has(l, kind) == kind = "callback" \/ kind \in l.streamCallbacks

\* this.listeners.forEach((listener) => listener.<kind>(...)), in registry order
Broadcast(ls, call) ==
    LET targets == SelectSeq(ls, LAMBDA l : Has(l, call.kind))
    IN [i \in 1..Len(targets) |-> [call EXCEPT !.lid = targets[i].id]]

RECURSIVE BroadcastAll(_, _)
BroadcastAll(ls, msgs) ==
    IF Len(msgs) = 0 THEN <<>>
    ELSE Broadcast(ls, MainCall(Head(msgs))) \o BroadcastAll(ls, Tail(msgs))

\* ------------------------------------------------- handleStreamEvent
Handled(notes, buf) == [notes |-> notes, buffer |-> buf, thrown |-> FALSE]

\* the chunk a delta carries
DeltaChunk(event) ==
    IF event.dtype = "text_delta" /\ event.dtext # <<>> THEN event.dtext
    ELSE IF event.dtype = "thinking_delta" /\ event.dthinking # <<>> THEN event.dthinking
    ELSE <<>>

RECURSIVE StopCallsPerListener(_, _)
StopCallsPerListener(ls, message) ==
    IF Len(ls) = 0 THEN <<>>
    ELSE Broadcast(<<Head(ls)>>, CompleteCall) \o Broadcast(<<Head(ls)>>, MainCall(message))
         \o StopCallsPerListener(Tail(ls), message)

\* the broadcasts of content_block_stop: onComplete first, then the main callback
StopCalls(ls, message) ==
    Broadcast(ls, CompleteCall) \o Broadcast(ls, MainCall(message))

ChunkArgumentTotal(chunk, fullContent) == fullContent

\* what onChunk is given for a delta
ChunkArgument(chunk, fullContent) == chunk

handleStreamEvent(event, ls, buf, conv) ==
    IF ~event.hasEvent
    THEN \* event.event is undefined: the TypeError is caught and reported
         Handled(Broadcast(ls, StreamError(TypeErrorText, conv)), buf)
    ELSE IF event.etype = "content_block_start"
    THEN Handled(<<>>, BufferStart(buf, conv))
    ELSE IF event.etype = "content_block_delta"
    THEN IF ~event.hasDelta THEN Handled(<<>>, buf)
         ELSE IF DeltaChunk(event) = <<>> THEN Handled(<<>>, buf)
         ELSE LET appended == BufferAppend(buf, conv, DeltaChunk(event))
              IN Handled(Broadcast(ls, ChunkCall(ChunkArgument(DeltaChunk(event),
                                                  BufferContent(appended, conv)))),
                         appended)
    ELSE IF event.etype = "content_block_stop"
    THEN Handled(StopCalls(ls, AssistantMessage(conv, BufferContent(buf, conv))),
                 BufferComplete(buf, conv))
    ELSE Handled(<<>>, buf)

\* ------------------------------------------------- handleSystemMessage
SystemInfo(msg) ==
    [sessionId |-> msg.sys.session_id, model |-> msg.sys.model,
     version |-> msg.sys.seaverse_version, agents |-> msg.sys.agents,
     tools |-> msg.sys.tools, skills |-> msg.sys.skills]

handleSystemMessageAsMessage(msg, ls, buf) ==
    Handled(Broadcast(ls, MainCall(AssistantMessage("", <<>>))), buf)

handleSystemMessage(msg, ls, buf) == Handled(Broadcast(ls, SystemCall(SystemInfo(msg))), buf)

\* ------------------------------------------------------ handleMessage
\* the catch block: wrap as ParseError and tell every listener's onError
CatchParse(message, data, ls, buf) == Handled(Broadcast(ls, ParseError(message, data)), buf)

handleMessage(data, ls, buf, conv) ==
    IF data.json = "invalid" THEN CatchParse(SyntaxErrorText, data, ls, buf)
    ELSE IF data.json = "null" THEN CatchParse(TypeErrorText, data, ls, buf)
    ELSE IF data.type = "stream_event" THEN handleStreamEvent(data, ls, buf, conv)
    ELSE IF data.type = "system" THEN handleSystemMessage(data, ls, buf)
    ELSE LET r == normalize(data, conv)
         IN IF r.error THEN CatchParse(r.message, data, ls, buf)
            ELSE Handled(BroadcastAll(ls, r.messages), buf)

\* what the listeners saw of the stream that began with the latest
\* content_block_start, as long as only its deltas and its stop have followed
Idle == [phase |-> "idle", deltas |-> <<>>, seen |-> <<>>]

IsStreamEvent(p, etype) ==
    p.json = "object" /\ p.type = "stream_event" /\ p.hasEvent /\ p.etype = etype

DeltaText(p) == IF p.dtype = "text_delta" THEN p.dtext ELSE p.dthinking

IsNonEmptyDelta(p) ==
    /\ IsStreamEvent(p, "content_block_delta")
    /\ p.hasDelta
    /\ p.dtype \in {"text_delta", "thinking_delta"}
    /\ DeltaText(p) # <<>>

StreamAfter(st, p, notes) ==
    IF IsStreamEvent(p, "content_block_start")
    THEN [phase |-> "open", deltas |-> <<>>, seen |-> <<>>]
    ELSE IF st.phase = "open" /\ IsNonEmptyDelta(p)
    THEN [phase |-> "open", deltas |-> Append(st.deltas, DeltaText(p)),
          seen |-> st.seen \o notes]
    ELSE IF st.phase = "open" /\ IsStreamEvent(p, "content_block_stop")
    THEN [phase |-> "done", deltas |-> st.deltas, seen |-> st.seen \o notes]
    ELSE Idle

\* A payload arrives on socket s: its onmessage handler calls handleMessage.
ServerFrame(s, p) ==
    /\ sockets[s].state = "OPEN"
    /\ LET h == handleMessage(p, listeners, streamBuffer, conversationId)
       IN /\ Len(BufferContent(h.buffer, conversationId)) <= MaxText
          /\ streamBuffer' = h.buffer
          /\ notified' = h.notes
          /\ thrown' = h.thrown
          /\ stream' = StreamAfter(stream, p, h.notes)
    /\ lastFrame' = p
    /\ unknownSeen' = (unknownSeen \/ p.type = "future_feature_x")
    /\ UNCHANGED <<connVars, registryVars, sendVars, session>>

\* ---------------------------------------------------- listener registry
ListenerArgs ==
    { [callback |-> "f", streamCallbacks |-> {}],
      [callback |-> "f", streamCallbacks |-> StreamCallbackNames] }

PushedReusingId(ls, id, args) ==
    Append(ls, [id |-> Len(ls) + 1, callback |-> args.callback,
                streamCallbacks |-> args.streamCallbacks])

\* this.listeners.push({id, callback, streamCallbacks})
Pushed(ls, id, args) ==
    Append(ls, [id |-> id, callback |-> args.callback,
                streamCallbacks |-> args.streamCallbacks])

FilteredInverted(ls, id) == SelectSeq(ls, LAMBDA l : l.id = id)

\* this.listeners.filter((listener) => listener.id !== id)
Filtered(ls, id) == SelectSeq(ls, LAMBDA l : l.id # id)

\* onMessage(callback, streamCallbacks)
OnMessage(args) ==
    /\ nextListenerId <= MaxListeners
    /\ listeners' = Pushed(listeners, nextListenerId, args)
    /\ nextListenerId' = nextListenerId + 1
    /\ notified' = <<>>
    /\ lastFrame' = NoPayload
    /\ stream' = Idle
    /\ UNCHANGED <<connVars, released, twice, streamBuffer, sendVars, session, thrown,
                   unknownSeen>>

\* the function onMessage returned for listener id is called
Unsubscribe(id) ==
    /\ id \in 1..(nextListenerId - 1)
    /\ listeners' = Filtered(listeners, id)
    /\ released' = released \cup {id}
    /\ twice' = (twice \/ id \in released)
    /\ notified' = <<>>
    /\ lastFrame' = NoPayload
    /\ stream' = Idle
    /\ UNCHANGED <<connVars, nextListenerId, streamBuffer, sendVars, session, thrown,
                   unknownSeen>>

\* ------------------------------------------------------ createChat facade
Contents == {<<"h", "i">>, <<"y", "o">>}

NoEcho == [status |-> "none", asked |-> <<>>, role |-> "", content |-> <<>>,
           conversationId |-> ""]

\* the frame sendUserMessage(conversationId, content) builds
UserFrame(conv, content, tok) ==
    [type |-> "user", tok |-> tok, call |-> 0, conversation_id |-> conv, content |-> content]

UserMessageAsAssistant(conv, content) ==
    [role |-> "assistant", conversationId |-> conv, content |-> content]

\* the UserMessage sendMessage returns
UserMessage(conv, content) == [role |-> "user", conversationId |-> conv, content |-> content]

\* chat.sendMessage(content): transport.sendUserMessage(config.conversationId,
\* content), then the locally built message; a throw rejects the promise.
SendMessage(content) ==
    /\ nextTok <= MaxSends
    /\ nextTok' = nextTok + 1
    /\ IF SendRefused(ws, sockets)
       THEN /\ refused' = refused \cup {nextTok}
            /\ echo' = [NoEcho EXCEPT !.status = "rejected", !.asked = content]
            /\ UNCHANGED sockets
       ELSE /\ sockets' = Transmit(ws, sockets, UserFrame(ConversationId, content, nextTok))
            /\ echo' = [status |-> "resolved", asked |-> content,
                        role |-> UserMessage(ConversationId, content).role,
                        content |-> UserMessage(ConversationId, content).content,
                        conversationId |-> UserMessage(ConversationId, content).conversationId]
            /\ UNCHANGED refused
    /\ UNCHANGED <<ws, calls, currentRetry, conversationId, heartbeatTimer, timers,
                   session, registryVars, streamBuffer, dispatchVars, configVars,
                   tokenVars>>

\* --------------------------------------------------- getUrlSessionToken
Tokens == {<<"t", "1">>, <<"t", "2">>}

\* how a request to the auth service ends: with a token; with null (a status
\* that is not ok, a body without token, a timeout, a network error); or with an
\* AuthError (status 401 or 403)
Outcomes ==
    {[kind |-> "token", token |-> tok] : tok \in Tokens}
    \cup {[kind |-> "null", token |-> <<>>], [kind |-> "auth", token |-> <<>>]}

NewRequest == [state |-> "flight", kind |-> "none", token |-> <<>>, doneAt |-> 0]

InFlight(rs) == {r \in 1..Len(rs) : rs[r].state = "flight"}

\* cachedToken && Date.now() < cacheExpiry
CacheValid(tok, expiry, time) == tok # <<>> /\ time < expiry

TokenCall(how, req, value) ==
    [how |-> how, req |-> req, value |-> value, after |-> lastOutcome,
     valid |-> CacheValid(cachedToken, cacheExpiry, now),
     flying |-> Cardinality(InFlight(requests))]

\* getUrlSessionToken(config); hasAccess = config.accessToken is not empty
GetUrlSessionToken(hasAccess) ==
    /\ Len(tokenCalls) < MaxTokenCalls
    /\ lastOutcome' = "none"
    /\ IF ~hasAccess
       THEN /\ tokenCalls' = Append(tokenCalls, TokenCall("noAccess", 0, <<>>))
            /\ UNCHANGED <<pendingRequest, requests>>
       ELSE IF CacheValid(cachedToken, cacheExpiry, now)
       THEN /\ tokenCalls' = Append(tokenCalls, TokenCall("cache", 0, cachedToken))
            /\ UNCHANGED <<pendingRequest, requests>>
       ELSE IF pendingRequest # 0
       THEN /\ tokenCalls' = Append(tokenCalls, TokenCall("joined", pendingRequest, <<>>))
            /\ UNCHANGED <<pendingRequest, requests>>
       ELSE /\ requests' = Append(requests, NewRequest)
            /\ pendingRequest' = Len(requests) + 1
            /\ tokenCalls' = Append(tokenCalls, TokenCall("issued", Len(requests) + 1, <<>>))
    /\ UNCHANGED <<transportVars, chatVars, configVars, cachedToken, cacheExpiry, now>>

\* The request r ends: fetchUrlSessionToken settles, then the then and finally
\* callbacks of the promise getUrlSessionToken built for it run.
RequestDone(r, outcome) ==
    /\ requests[r].state = "flight"
    /\ requests' = [requests EXCEPT ![r] = [state |-> "done", kind |-> outcome.kind,
                                            token |-> outcome.token, doneAt |-> now]]
    /\ IF outcome.kind = "token"
       THEN /\ cachedToken' = outcome.token
            /\ cacheExpiry' = now + CACHE_TTL_MS
       ELSE IF outcome.kind = "auth"
       THEN \* clearUrlSessionTokenCache() before the AuthError is thrown
            /\ cachedToken' = <<>>
            /\ cacheExpiry' = 0
       ELSE UNCHANGED <<cachedToken, cacheExpiry>>
    /\ pendingRequest' = 0
    /\ lastOutcome' = outcome.kind
    /\ UNCHANGED <<transportVars, chatVars, configVars, now, tokenCalls>>

clearUrlSessionTokenCache ==
    /\ cachedToken' = <<>>
    /\ cacheExpiry' = 0
    /\ pendingRequest' = 0
    /\ UNCHANGED <<transportVars, chatVars, configVars, requests, now, tokenCalls,
                   lastOutcome>>

\* time passes
Tick ==
    /\ now < MaxTicks * TickMs
    /\ now' = now + TickMs
    /\ UNCHANGED <<transportVars, chatVars, configVars, cachedToken, cacheExpiry,
                   pendingRequest, requests, tokenCalls, lastOutcome>>

\* ------------------------------------------------- session config merge
\* An optional field of SessionConfig: given = the caller supplied the field.
Omitted(v) == [given |-> FALSE, value |-> v]
Supplied(v) == [given |-> TRUE, value |-> v]

Models == {"", "claude-opus-4", "m2"}
Turns == {0, 1, 200}

SessionConfigs ==
    [model : {Omitted("")} \cup {Supplied(m) : m \in Models},
     max_turns : {Omitted(0)} \cup {Supplied(n) : n \in Turns}]

\* sessionConfig undefined: sessionConfig?.model and ?.max_turns are undefined
NoSessionConfig == [model |-> Omitted(""), max_turns |-> Omitted(0)]

NoConfig == [model |-> "", max_turns |-> 0]

BuiltinModel == "claude-sonnet-4"
BuiltinMaxTurns == 100

\* the left operand of || is taken when it is truthy
TruthyText(field) == field.given /\ field.value # ""
TruthyNumber(field) == field.given /\ field.value # 0

\* the config object built in onopen
MergedConfig(sc, dc) ==
    [model |-> IF TruthyText(sc.model) THEN sc.model.value
               ELSE IF TruthyText(dc.model) THEN dc.model.value
               ELSE BuiltinModel,
     max_turns |-> IF TruthyNumber(sc.max_turns) THEN sc.max_turns.value
                   ELSE IF TruthyNumber(dc.max_turns) THEN dc.max_turns.value
                   ELSE BuiltinMaxTurns]

\* connect(..., sessionConfig) whose socket opens: the config of its init_session
InitSessionConfig(sc) ==
    /\ sessionConfig' = sc
    /\ initConfig' = MergedConfig(sc, defaultSessionConfig)
    /\ UNCHANGED <<transportVars, chatVars, defaultSessionConfig, tokenVars>>

\* -------------------------------------------------------- histories
NotNormalized == [error |-> FALSE, message |-> <<"not called">>, messages |-> <<>>]

\* open: a content_block_start arrived and no content_block_stop since;
\* marked, socks: the deltas since the latest start or stop and their sockets;
\* done: the deltas of the stream stopped latest, if any;
\* wasOpen, wasMarked, wasDone: open, marked and done before the latest frame
NoStreamLog == [open |-> FALSE, marked |-> <<>>, socks |-> <<>>, done |-> <<>>,
                wasOpen |-> FALSE, wasMarked |-> <<>>, wasDone |-> <<>>]

\* kind: what the callback `on` of listener `by` did when it was invoked ("throw",
\* "unsubscribe" the listener `target`, "register" a listener), or "none";
\* ids: the listeners registered when the frame arrived
NoUpset == [kind |-> "none", by |-> 0, on |-> "", target |-> 0, ids |-> {}]

\* ----------------------------------------------------- specifications
InitTransport ==
    /\ sockets = <<>>
    /\ ws = 0
    /\ calls = <<>>
    /\ currentRetry = 0
    /\ conversationId = ""
    /\ heartbeatTimer = 0
    /\ timers = {}
    /\ listeners = <<>>
    /\ nextListenerId = 1
    /\ released = {}
    /\ twice = FALSE
    /\ streamBuffer = [k \in {} |-> <<>>]
    /\ nextTok = 1
    /\ refused = {}
    /\ session = 0
    /\ notified = <<>>
    /\ lastFrame = NoPayload
    /\ thrown = FALSE
    /\ stream = Idle
    /\ unknownSeen = FALSE

InitChat == echo = NoEcho

InitSession ==
    /\ sessionConfig = NoSessionConfig
    /\ initConfig = NoConfig

InitTokenCache ==
    /\ cachedToken = <<>>
    /\ cacheExpiry = 0
    /\ pendingRequest = 0
    /\ requests = <<>>
    /\ now = 0
    /\ tokenCalls = <<>>
    /\ lastOutcome = "none"

InitLate ==
    /\ normalized = NotNormalized
    /\ streamLog = NoStreamLog
    /\ upset = NoUpset
    /\ requestAccess = <<>>
    /\ callAccess = <<>>
    /\ callSource = <<>>
    /\ cachedBy = 0
    /\ stale = {}

\* a transport constructed without a client-level session config
Init ==
    /\ InitTransport
    /\ serverMsg = NoPayload
    /\ InitLate
    /\ InitChat
    /\ defaultSessionConfig = NoSessionConfig
    /\ InitSession
    /\ InitTokenCache

NextConn ==
    \/ Connect /\ UNCHANGED otherVars
    \/ \E s \in 1..Len(sockets) : SocketOpen(s) /\ UNCHANGED otherVars
    \/ \E s \in 1..Len(sockets) : SocketFail(s) /\ UNCHANGED otherVars
    \/ \E s \in 1..Len(sockets) : SocketClose(s) /\ UNCHANGED otherVars
    \/ \E s \in 1..Len(sockets) : Timeout(s) /\ UNCHANGED otherVars
    \/ \E c \in 1..Len(calls) : SleepDone(c) /\ UNCHANGED otherVars
    \/ Disconnect /\ UNCHANGED otherVars
    \/ \E t \in timers : HeartbeatTick(t) /\ UNCHANGED otherVars

SpecConn == Init /\ [][NextConn]_vars

\* The transport with listeners and inbound payloads, on connections that open.
Next ==
    \/ Len(sockets) < FewSockets /\ Connect /\ UNCHANGED otherVars
    \/ \E s \in 1..Len(sockets) : SocketOpen(s) /\ UNCHANGED otherVars
    \/ \E s \in 1..Len(sockets) : SocketClose(s) /\ UNCHANGED otherVars
    \/ Disconnect /\ UNCHANGED otherVars
    \/ \E args \in ListenerArgs : OnMessage(args) /\ UNCHANGED otherVars
    \/ \E id \in 1..MaxListeners : Unsubscribe(id) /\ UNCHANGED otherVars
    \/ \E s \in 1..Len(sockets), p \in Payloads : ServerFrame(s, p) /\ UNCHANGED otherVars

Spec == Init /\ [][Next]_vars

\* The transport with callers of send, sendUserMessage and interrupt.
SendPayloads == {StreamEvent("content_block_start"), Delta("text_delta", <<"a">>, <<>>)}

NextSend ==
    \/ Len(sockets) < SendSockets /\ Connect /\ UNCHANGED otherVars
    \/ \E s \in 1..Len(sockets) : SocketOpen(s) /\ UNCHANGED otherVars
    \/ \E s \in 1..Len(sockets) : SocketFail(s) /\ UNCHANGED otherVars
    \/ \E s \in 1..Len(sockets) : SocketClose(s) /\ UNCHANGED otherVars
    \/ \E s \in 1..Len(sockets) : Timeout(s) /\ UNCHANGED otherVars
    \/ \E c \in 1..Len(calls) : Len(sockets) < SendSockets /\ SleepDone(c) /\ UNCHANGED otherVars
    \/ Disconnect /\ UNCHANGED otherVars
    \/ \E t \in timers : HeartbeatTick(t) /\ UNCHANGED otherVars
    \/ \E op \in SendOps : Send(op) /\ UNCHANGED otherVars
    \/ nextListenerId = 1 /\ OnMessage([callback |-> "f", streamCallbacks |-> {}]) /\ UNCHANGED otherVars
    \/ \E s \in 1..Len(sockets), p \in SendPayloads : ServerFrame(s, p) /\ UNCHANGED otherVars

SpecSend == Init /\ [][NextSend]_vars

\* The transport with callers that call connect() again only after the earlier
\* call was resolved or rejected.
Finished(cs) == \A c \in 1..Len(cs) : cs[c].pc \in {"resolved", "rejected"}

NextAgain ==
    \/ Finished(calls) /\ Connect /\ UNCHANGED otherVars
    \/ \E s \in 1..Len(sockets) : SocketOpen(s) /\ UNCHANGED otherVars
    \/ \E s \in 1..Len(sockets) : SocketFail(s) /\ UNCHANGED otherVars
    \/ \E s \in 1..Len(sockets) : SocketClose(s) /\ UNCHANGED otherVars
    \/ \E s \in 1..Len(sockets) : Timeout(s) /\ UNCHANGED otherVars
    \/ \E c \in 1..Len(calls) : SleepDone(c) /\ UNCHANGED otherVars
    \/ Disconnect /\ UNCHANGED otherVars
    \/ \E t \in timers : HeartbeatTick(t) /\ UNCHANGED otherVars

SpecAgain == Init /\ [][NextAgain]_vars

\* The config merge for every client-level default and every connect() argument.
InitConfig ==
    /\ InitTransport
    /\ serverMsg = NoPayload
    /\ InitLate
    /\ InitChat
    /\ defaultSessionConfig \in SessionConfigs
    /\ InitSession
    /\ InitTokenCache

NextConfig == \E sc \in SessionConfigs : InitSessionConfig(sc) /\ UNCHANGED lateVars

SpecConfig == InitConfig /\ [][NextConfig]_vars

\* The chat client of createChat with callers of sendMessage.
ChatPayloads ==
    { Assistant(<<Block("text", <<"h", "i">>)>>),
      Result("success", FALSE, <<"o", "k">>),
      [Blank EXCEPT !.type = "media_result"],
      StreamEvent("content_block_start"),
      Delta("text_delta", <<"a">>, <<>>),
      StreamEvent("content_block_stop") }

NextChat ==
    \/ Len(sockets) < SendSockets /\ Connect /\ UNCHANGED otherVars
    \/ \E s \in 1..Len(sockets) : SocketOpen(s) /\ UNCHANGED otherVars
    \/ \E s \in 1..Len(sockets) : SocketClose(s) /\ UNCHANGED otherVars
    \/ Disconnect /\ UNCHANGED otherVars
    \/ \E content \in Contents : SendMessage(content) /\ UNCHANGED lateVars
    \/ \E args \in ListenerArgs : nextListenerId <= 2 /\ OnMessage(args) /\ UNCHANGED otherVars
    \/ \E s \in 1..Len(sockets), p \in ChatPayloads : ServerFrame(s, p) /\ UNCHANGED otherVars

SpecChat == Init /\ [][NextChat]_vars

\* The url-session token module with its callers, the auth service and the clock.
NextToken ==
    \/ \E hasAccess \in BOOLEAN : GetUrlSessionToken(hasAccess) /\ UNCHANGED lateVars
    \/ \E r \in 1..Len(requests), outcome \in Outcomes : RequestDone(r, outcome) /\ UNCHANGED lateVars
    \/ clearUrlSessionTokenCache /\ UNCHANGED lateVars
    \/ Tick /\ UNCHANGED lateVars

SpecToken == Init /\ [][NextToken]_vars

\* ============================================================ claims
Ids(ls) == {ls[i].id : i \in 1..Len(ls)}

\* the callbacks listener id was given in `notes`, in order, as <<kind, role, text>>
CallsTo(notes, id) ==
    LET mine == SelectSeq(notes, LAMBDA n : n.lid = id)
    IN [i \in 1..Len(mine) |-> <<mine[i].kind, mine[i].role, mine[i].text>>]

RECURSIVE Concat(_)
Concat(texts) == IF Len(texts) = 0 THEN <<>> ELSE Head(texts) \o Concat(Tail(texts))

\* what a listener is due for the stream start, d1 .. dn, stop
StreamCallsDue(l, deltas) ==
    (IF "onChunk" \in l.streamCallbacks
     THEN [i \in 1..Len(deltas) |-> <<"onChunk", "none", deltas[i]>>] ELSE <<>>)
    \o (IF "onComplete" \in l.streamCallbacks
        THEN << <<"onComplete", "none", <<>>>> >> ELSE <<>>)
    \o << <<"callback", "assistant", Concat(deltas)>> >>

\* C1: after content_block_start, non-empty text or thinking deltas d1..dn and
\* content_block_stop, every registered listener has been given onChunk(d1), ...,
\* onChunk(dn) with the raw deltas, then onComplete(), then its main callback once
\* with an assistant message whose content is d1..dn concatenated (a listener
\* without stream callbacks: the main callback alone).
C1_StreamingOrder ==
    stream.phase = "done" =>
        \A i \in 1..Len(listeners) :
            CallsTo(stream.seen, listeners[i].id) = StreamCallsDue(listeners[i], stream.deltas)

C1_Witness ==
    /\ stream.phase = "done"
    /\ stream.deltas = << <<"a">>, <<"b">> >>
    /\ Len(listeners) >= 2
    /\ \E i \in 1..Len(listeners) : listeners[i].streamCallbacks = StreamCallbackNames

\* C2: on content_block_stop every listener's onComplete is invoked before any
\* listener's main callback, and each listener gets each of the two once.
C2_CompleteBeforeMain ==
    IsStreamEvent(lastFrame, "content_block_stop") =>
        /\ \A i, j \in 1..Len(notified) :
               (notified[i].kind = "onComplete" /\ notified[j].kind = "callback") => i < j
        /\ \A k \in 1..Len(listeners) :
               LET got == CallsTo(notified, listeners[k].id)
               IN /\ Len(SelectSeq(got, LAMBDA c : c[1] = "callback")) = 1
                  /\ Len(SelectSeq(got, LAMBDA c : c[1] = "onComplete")) =
                        (IF "onComplete" \in listeners[k].streamCallbacks THEN 1 ELSE 0)

C2_Witness ==
    /\ IsStreamEvent(lastFrame, "content_block_stop")
    /\ Cardinality({i \in 1..Len(notified) : notified[i].kind = "onComplete"}) >= 2
    /\ Cardinality({i \in 1..Len(notified) : notified[i].kind = "callback"}) >= 2

\* C4: a send, sendUserMessage or interrupt call made while
\* there is no socket or the socket is not OPEN throws, transmits nothing then or
\* later, and changes nothing of the transport.
C4_SendWhileDisconnected ==
    /\ [](\A s \in 1..Len(sockets) : \A i \in 1..Len(sockets[s].sent) :
              sockets[s].sent[i].tok \notin refused)
    /\ [][(nextTok' # nextTok /\ (ws = 0 \/ sockets[ws].state # "OPEN")) =>
              /\ refused' = refused \cup {nextTok}
              /\ UNCHANGED <<sockets, ws, calls, currentRetry, conversationId,
                             heartbeatTimer, timers, listeners, nextListenerId,
                             streamBuffer>>]_vars

C4_Witness ==
    /\ refused # {}
    /\ ws # 0
    /\ sockets[ws].state = "CONNECTING"
    /\ currentRetry > 0
    /\ Len(listeners) > 0
    /\ BufferContent(streamBuffer, conversationId) # <<>>

\* C5: a payload's callbacks go to the listeners registered when it is
\* dispatched and to no one else: never to a listener whose unsubscribe function
\* has run, and to every listener that is still registered.
C5_NotifiedWhileRegistered ==
    lastFrame # NoPayload =>
        /\ \A i \in 1..Len(notified) :
               /\ notified[i].lid \notin released
               /\ notified[i].lid \in 1..(nextListenerId - 1)
        /\ \A id \in (1..(nextListenerId - 1)) \ released :
               \E k \in 1..Len(listeners) :
                   /\ listeners[k].id = id
                   /\ \A i \in 1..Len(notified) :
                          Has(listeners[k], notified[i].kind) =>
                              \E j \in 1..Len(notified) :
                                  /\ notified[j].lid = id
                                  /\ notified[j].kind = notified[i].kind
                                  /\ notified[j].text = notified[i].text

C5_Witness ==
    /\ lastFrame # NoPayload
    /\ 1 \in released
    /\ Ids(listeners) = {2, 3}
    /\ {notified[i].lid : i \in 1..Len(notified)} = {2, 3}

\* C6: the ids of the registry are distinct and increasing, every id handed out
\* is below the counter and greater than all ids handed out before, and the
\* registry holds exactly the ids whose unsubscribe function has not been called.
C6_FreshIds ==
    /\ [](/\ \A i, j \in 1..Len(listeners) : i < j => listeners[i].id < listeners[j].id
          /\ Ids(listeners) = (1..(nextListenerId - 1)) \ released)
    /\ [][\A i \in 1..Len(listeners') :
              listeners'[i].id \notin Ids(listeners) =>
                  \A a \in Ids(listeners) \cup released : listeners'[i].id > a]_vars

C6_Witness ==
    /\ twice
    /\ Len(listeners) = 2
    /\ listeners[1].callback = listeners[2].callback
    /\ listeners[1].streamCallbacks = listeners[2].streamCallbacks
    /\ released # {}

IsServerError(p) ==
    /\ p.json = "object"
    /\ \/ p.type = "error"
       \/ p.type = "result" /\ (p.subtype = "error" \/ p.is_error)

OnErrorTexts(notes, id) ==
    LET mine == SelectSeq(notes, LAMBDA n : n.lid = id /\ n.kind = "onError")
    IN [i \in 1..Len(mine) |-> mine[i].text]

\* C7 as claimed: an error frame or an error result invokes no main callback, and
\* each listener's onError once, with the frame's error or result string as message.
C7_ErrorCarriesFrameString ==
    IsServerError(lastFrame) =>
        /\ \A i \in 1..Len(notified) : notified[i].kind # "callback"
        /\ \A k \in 1..Len(listeners) :
               "onError" \in listeners[k].streamCallbacks =>
                   OnErrorTexts(notified, listeners[k].id) = <<lastFrame.text>>

\* C7 as amended: the message is the frame's string, and 'Unknown error' for an
\* error result whose result string is empty.
C7_ErrorCarriesStringOrDefault ==
    IsServerError(lastFrame) =>
        /\ \A i \in 1..Len(notified) : notified[i].kind # "callback"
        /\ \A k \in 1..Len(listeners) :
               "onError" \in listeners[k].streamCallbacks =>
                   OnErrorTexts(notified, listeners[k].id) =
                       <<IF lastFrame.type = "result" /\ lastFrame.text = <<>>
                         THEN <<"Unknown error">> ELSE lastFrame.text>>

C7_Witness ==
    /\ lastFrame.type = "result"
    /\ lastFrame.is_error
    /\ lastFrame.text = <<>>
    /\ Cardinality({i \in 1..Len(notified) : notified[i].kind = "onError"}) >= 2

HiFrame == Assistant(<<Block("text", <<"h", "i">>)>>)

\* C8: a payload of an unknown type invokes no callback and raises nothing, and an
\* assistant frame with one text block that arrives after it gives every listener
\* one message with that text.
C8_UnknownTypeIgnored ==
    /\ (lastFrame.json = "object" /\ lastFrame.type = "future_feature_x") =>
           (notified = <<>> /\ ~thrown)
    /\ (unknownSeen /\ lastFrame = HiFrame) =>
           /\ ~thrown
           /\ \A k \in 1..Len(listeners) :
                  CallsTo(notified, listeners[k].id) =
                      << <<"callback", "assistant", <<"h", "i">>>> >>

C8_Witness ==
    /\ unknownSeen
    /\ lastFrame = HiFrame
    /\ Len(listeners) >= 2

\* the payloads JSON.parse rejects, or that are no object, or that normalize raises on
IsUnprocessable(p, conv) ==
    \/ p.json \in {"invalid", "null"}
    \/ /\ p.json = "object"
       /\ p.type \notin {"stream_event", "system"}
       /\ normalize(p, conv).error

\* C9: such a payload gives every listener's onError one ParseError carrying the
\* raw payload and invokes nothing else, nothing is thrown out of the handler, and
\* socket, heartbeat timer, registry and stream buffer stay as they are.
C9_ParseErrorToListeners ==
    /\ [](IsUnprocessable(lastFrame, conversationId) =>
              /\ ~thrown
              /\ \A i \in 1..Len(notified) :
                     /\ notified[i].kind = "onError"
                     /\ notified[i].err = "ParseError"
                     /\ notified[i].raw = lastFrame
              /\ \A k \in 1..Len(listeners) :
                     Len(CallsTo(notified, listeners[k].id)) =
                         (IF "onError" \in listeners[k].streamCallbacks THEN 1 ELSE 0))
    /\ [][(lastFrame' # NoPayload /\ IsUnprocessable(lastFrame', conversationId)
           /\ \E s \in 1..Len(sockets) : ServerFrame(s, lastFrame')) =>
              UNCHANGED <<sockets, ws, heartbeatTimer, timers, listeners,
                          nextListenerId, streamBuffer>>]_vars

C9_Witness ==
    /\ lastFrame.json = "invalid"
    /\ Len(listeners) >= 2
    /\ Len(notified) >= 2
    /\ BufferContent(streamBuffer, conversationId) # <<>>
    /\ heartbeatTimer # 0

\* C3 as claimed, for a transport on which connect() was called once: a call that
\* was rejected made maxRetries + 1 attempts, waited
\* min(initialDelay * backoffMultiplier^k, maxDelay) after the k-th failure for
\* k < maxRetries, and carries a ConnectionError or a ConnectionTimeoutError with
\* the configured timeout.
C3_RetrySchedule ==
    (Len(calls) = 1 /\ calls[1].pc = "rejected") =>
        /\ calls[1].attempts = maxRetries + 1
        /\ calls[1].waits =
               [k \in 1..maxRetries |->
                   Min(initialDelay * Pow(backoffMultiplier, k - 1), maxDelay)]
        /\ calls[1].err \in {[name |-> "ConnectionError", timeout |-> 0],
                             [name |-> "ConnectionTimeoutError", timeout |-> timeout]}

\* C10 as claimed, for a transport on which connect() was called once: while the
\* connection that connect() set up stands (no disconnect(), its socket not
\* closed) exactly one heartbeat timer is active.
C10_HeartbeatWhileConnected ==
    (Len(calls) = 1 /\ session # 0) =>
        (heartbeatTimer # 0 /\ timers = {heartbeatTimer})

\* the sockets that are connecting or connected
Live(socks) == {s \in 1..Len(socks) : socks[s].state \in {"CONNECTING", "OPEN"}}

\* C11 as claimed, for a transport on which connect() was called once: at most one
\* socket is CONNECTING or OPEN, and a socket that is OPEN (its onmessage handler
\* dispatches what arrives on it) is the socket this.ws references.
C11_SingleLiveSocket ==
    Len(calls) = 1 =>
        /\ Cardinality(Live(sockets)) <= 1
        /\ \A s \in 1..Len(sockets) : sockets[s].state = "OPEN" => s = ws

InitFrames(sent) == {i \in 1..Len(sent) : sent[i].type = "init_session"}

\* C12 as claimed, for a transport on which connect() was called once: a resolved
\* connect() has a socket that reached OPEN, and every socket that is OPEN was sent
\* exactly one init_session frame, as its first frame, with the arguments of the
\* call that created the socket.
C12_InitSessionFirst ==
    Len(calls) = 1 =>
        /\ calls[1].pc = "resolved" =>
               \E s \in 1..Len(sockets) : sockets[s].state \in {"OPEN", "CLOSING", "CLOSED"}
        /\ \A s \in 1..Len(sockets) :
               sockets[s].state = "OPEN" =>
                   /\ InitFrames(sockets[s].sent) = {1}
                   /\ sockets[s].sent[1].call = sockets[s].call

\* C13: disconnect() can be called in every state; when it returns this.ws is
\* null, isConnected() is false and no heartbeat timer is active; called when
\* this.ws is already null it changes nothing; isConnected() is true exactly when
\* this.ws references a socket that is OPEN.
C13_DisconnectIdempotent ==
    /\ [](ENABLED Disconnect)
    /\ [](isConnected(ws, sockets) <=> (ws # 0 /\ sockets[ws].state = "OPEN"))
    /\ [][Disconnect =>
              /\ ws' = 0
              /\ ~isConnected(ws', sockets')
              /\ heartbeatTimer' = 0
              /\ timers' = {}
              /\ (ws = 0 => UNCHANGED <<sockets, calls, currentRetry, conversationId,
                                        heartbeatTimer, timers, listeners,
                                        nextListenerId, streamBuffer>>)]_vars

C13_Witness ==
    /\ ws = 0
    /\ timers = {}
    /\ \E s \in 1..Len(sockets) :
           /\ sockets[s].state = "CLOSING"
           /\ ~sockets[s].failing
           /\ InitFrames(sockets[s].sent) # {}
    /\ \E s \in 1..Len(sockets) : sockets[s].state = "CLOSING" /\ sockets[s].failing

Pending(cs) == {c \in 1..Len(cs) : cs[c].pc \in {"attempt", "sleep"}}

\* C18: a disconnect() made while a connect() call is pending leaves the call
\* pending, at the same position of its retry loop; a call that waits for its
\* backoff makes its next attempt when the wait ends, whatever this.ws is.
C18_DisconnectKeepsPendingConnect ==
    /\ [][(ws # 0 /\ ws' = 0) => \A c \in Pending(calls) : calls'[c] = calls[c]]_vars
    /\ [](\A c \in 1..Len(calls) :
             (calls[c].pc = "sleep" /\ Len(sockets) < MaxSockets) => ENABLED SleepDone(c))

C18_Witness ==
    /\ Len(calls) = 1
    /\ \E s \in 1..Len(sockets) : sockets[s].state = "CLOSED" /\ sockets[s].failing
    /\ ws # 0
    /\ sockets[ws].state = "OPEN"
    /\ InitFrames(sockets[ws].sent) = {1}
    /\ heartbeatTimer # 0
    /\ heartbeatTimer \in timers
    /\ calls[1].pc = "resolved"

\* C19 as claimed: a connect() call made after the earlier call was resolved or
\* rejected makes at most maxRetries + 1 attempts (so it waits at most maxRetries
\* times), its first wait is initialDelay, and the conversation id it was given is
\* the one the transport stamps on messages.
C19_ConnectRestarts ==
    \A c \in 2..Len(calls) :
        /\ calls[c].attempts <= maxRetries + 1
        /\ Len(calls[c].waits) <= maxRetries
        /\ Len(calls[c].waits) >= 1 => calls[c].waits[1] = initialDelay
        /\ conversationId = ConversationId

\* C20: a system frame gives every listener's onSystem one call with the frame's
\* session id, model, version, agents, tools and skills, and invokes nothing else;
\* a stream_event frame is handled by the stream handler, never by the normalizer
\* (one without an event block is reported as a StreamError, and no stream_event
\* frame as a ParseError); a frame that is no stream_event leaves the stream
\* buffer as it is.
C20_SystemFrameOnlyOnSystem ==
    /\ []((lastFrame.json = "object" /\ lastFrame.type = "system") =>
              /\ \A i \in 1..Len(notified) :
                     /\ notified[i].kind = "onSystem"
                     /\ notified[i].info =
                            [sessionId |-> lastFrame.sys.session_id,
                             model |-> lastFrame.sys.model,
                             version |-> lastFrame.sys.seaverse_version,
                             agents |-> lastFrame.sys.agents,
                             tools |-> lastFrame.sys.tools,
                             skills |-> lastFrame.sys.skills]
              /\ \A k \in 1..Len(listeners) :
                     Len(CallsTo(notified, listeners[k].id)) =
                         (IF "onSystem" \in listeners[k].streamCallbacks THEN 1 ELSE 0))
    /\ []((lastFrame.json = "object" /\ lastFrame.type = "stream_event") =>
              /\ \A i \in 1..Len(notified) : notified[i].err # "ParseError"
              /\ ~lastFrame.hasEvent =>
                     \A k \in 1..Len(listeners) :
                         "onError" \in listeners[k].streamCallbacks =>
                             \E i \in 1..Len(notified) :
                                 /\ notified[i].lid = listeners[k].id
                                 /\ notified[i].err = "StreamError")
    /\ [][lastFrame'.type # "stream_event" => streamBuffer' = streamBuffer]_vars

C20_Witness ==
    /\ lastFrame.type = "system"
    /\ lastFrame.sys.model = "m1"
    /\ Len(notified) >= 2
    /\ \E k \in 1..Len(listeners) : listeners[k].streamCallbacks = {}
    /\ BufferContent(streamBuffer, conversationId) # <<>>

\* the value the precedence argument > client default > built-in gives
Chosen(arg, def, builtin) ==
    IF arg.given THEN arg.value ELSE IF def.given THEN def.value ELSE builtin

\* C15 as claimed: model and max_turns of the init_session config are the value
\* passed to connect() when one is supplied, else the client-level default when
\* one is supplied, else 'claude-sonnet-4' / 100.
C15_ConfigPrecedence ==
    initConfig # NoConfig =>
        /\ initConfig.model =
               Chosen(sessionConfig.model, defaultSessionConfig.model, "claude-sonnet-4")
        /\ initConfig.max_turns =
               Chosen(sessionConfig.max_turns, defaultSessionConfig.max_turns, 100)

\* C14: a sendMessage on an OPEN connection appends one user frame with the
\* facade's conversation id and the given content to the referenced socket and
\* resolves with a message of role 'user', that content and that conversation id,
\* no server frame needed and no listener invoked; every message a main callback
\* receives has role 'assistant'; a sendMessage on a connection that is not OPEN
\* rejects, returns no message and transmits nothing.
C14_SendMessageEcho ==
    /\ [](\A i \in 1..Len(notified) :
             notified[i].kind = "callback" => notified[i].role = "assistant")
    /\ [][nextTok' # nextTok =>
              IF ws # 0 /\ sockets[ws].state = "OPEN"
              THEN /\ sockets' = [sockets EXCEPT ![ws].sent =
                          Append(@, [type |-> "user", tok |-> nextTok, call |-> 0,
                                     conversation_id |-> ConversationId,
                                     content |-> echo'.asked])]
                   /\ echo'.status = "resolved"
                   /\ echo'.role = "user"
                   /\ echo'.content = echo'.asked
                   /\ echo'.conversationId = ConversationId
                   /\ UNCHANGED <<notified, lastFrame, listeners>>
              ELSE /\ echo'.status = "rejected"
                   /\ echo'.role = ""
                   /\ UNCHANGED <<sockets, notified, lastFrame, listeners>>]_vars

C14_Witness ==
    /\ echo.status = "resolved"
    /\ echo.content = <<"h", "i">>
    /\ refused # {}
    /\ Len(listeners) >= 1
    /\ lastFrame = NoPayload

\* C16 as claimed: at most one auth-service request is in flight, and a call that
\* issued a request was made while none was in flight.
C16_SingleRequestInFlight ==
    /\ Cardinality(InFlight(requests)) <= 1
    /\ \A i \in 1..Len(tokenCalls) :
           tokenCalls[i].how = "issued" => tokenCalls[i].flying = 0

\* C17 as claimed: a call made while a non-empty token is cached and the time is
\* before its expiry returns that token without a request; the expiry is
\* CACHE_TTL_MS after the token was stored; a call made otherwise does not answer
\* from the cache; only a token a request returned is ever cached; and the call
\* that follows a failed request issues a new request.
C17_CacheUntilExpiry ==
    /\ \A i \in 1..Len(tokenCalls) :
           tokenCalls[i].how # "noAccess" =>
               /\ tokenCalls[i].valid <=> tokenCalls[i].how = "cache"
               /\ tokenCalls[i].how = "cache" => tokenCalls[i].value # <<>>
               /\ tokenCalls[i].after \in {"null", "auth"} => tokenCalls[i].how = "issued"
    /\ cachedToken # <<>> =>
           \E r \in 1..Len(requests) :
               /\ requests[r].state = "done"
               /\ requests[r].kind = "token"
               /\ requests[r].token = cachedToken
               /\ cacheExpiry = requests[r].doneAt + CACHE_TTL_MS

\* ------------------------------------------------ after a failed connect()
ControlFrames(sent) ==
    {i \in 1..Len(sent) : sent[i].type \in {"init_session", "heartbeat"}}

\* C24 as claimed, for a transport on which connect() was called once: once that
\* call is rejected, and until connect() is called again, isConnected() is false,
\* no socket is sent an init_session or heartbeat frame and no heartbeat timer is
\* started.
C24_QuietAfterRejection ==
    [][(/\ Len(calls) = 1
        /\ calls[1].pc = "rejected"
        /\ Len(calls') = 1)
       => /\ ~isConnected(ws', sockets')
          /\ timers' \subseteq timers
          /\ \A s \in 1..Len(sockets) :
                 ControlFrames(sockets'[s].sent) = ControlFrames(sockets[s].sent)]_vars

\* ------------------------------------------------ overlapping connect() calls
\* call c has a socket of its own that reaches OPEN in this step
OwnSocketOpens(c) ==
    \E s \in 1..Len(sockets) :
        /\ sockets[s].call = c
        /\ sockets[s].state = "CONNECTING"
        /\ sockets'[s].state = "OPEN"

\* C25 as claimed: when a second connect() is called while the first is still
\* pending, each of the two calls makes at most maxRetries + 1 attempts, and a
\* call resolves only in a step in which one of its own sockets reaches OPEN.
C25_OverlappingCallsSettle ==
    [][(Len(calls) = 2 /\ 1 \in Pending(calls)) =>
           \A c \in 1..2 :
               /\ calls'[c].attempts <= maxRetries + 1
               /\ (calls[c].pc # "resolved" /\ calls'[c].pc = "resolved")
                      => OwnSocketOpens(c)]_vars

\* ------------------------------------------------- the normalizer alone
MaxBlocks == 3

NormalizeInputs ==
    LET Blocks == { Block("text", <<"a">>), Block("text", <<"b", "c">>),
                    Block("text", <<>>), Block("thinking", <<"t">>),
                    Block("tool_use", <<>>) }
    IN {Assistant(content) : content \in UNION {[1..n -> Blocks] : n \in 0..MaxBlocks}}
       \cup NormalPayloads \cup ErrorPayloads

\* ProtocolNormalizer.normalize(serverMsg, conversationId), called once
Normalize ==
    /\ normalized = NotNormalized
    /\ normalized' = normalize(serverMsg, ConversationId)
    /\ UNCHANGED <<transportVars, chatVars, configVars, tokenVars, serverMsg,
                   streamLog, upset, requestAccess, callAccess, callSource,
                   cachedBy, stale>>

InitNormalize ==
    /\ InitTransport
    /\ serverMsg \in {p \in NormalizeInputs : p.json = "object"}
    /\ InitLate
    /\ InitChat
    /\ defaultSessionConfig = NoSessionConfig
    /\ InitSession
    /\ InitTokenCache

NextNormalize == Normalize

SpecNormalize == InitNormalize /\ [][NextNormalize]_vars

\* the texts of the text blocks of a content array, in block order
RECURSIVE TextsOf(_)
TextsOf(content) ==
    IF content = <<>> THEN <<>>
    ELSE IF Head(content).type = "text"
         THEN <<Head(content).text>> \o TextsOf(Tail(content))
         ELSE TextsOf(Tail(content))

\* the lines of a text: its pieces between newline characters
RECURSIVE Lines(_)
Lines(text) ==
    IF \A i \in 1..Len(text) : text[i] # "\n" THEN <<text>>
    ELSE LET i == CHOOSE j \in 1..Len(text) :
                      text[j] = "\n" /\ \A k \in 1..(j - 1) : text[k] # "\n"
         IN <<SubSeq(text, 1, i - 1)>> \o Lines(SubSeq(text, i + 1, Len(text)))

\* C21: for an assistant frame normalize returns one assistant message whose
\* content is the frame's text blocks joined by newlines in block order when the
\* frame has a text block, and no message when it has none or has no content
\* array; for every frame type normalize returns at most one message.
C21_AssistantTextJoined ==
    normalized # NotNormalized =>
        /\ Len(normalized.messages) <= 1
        /\ serverMsg.type = "assistant" =>
               /\ ~normalized.error
               /\ IF serverMsg.hasContent /\ TextsOf(serverMsg.content) # <<>>
                  THEN /\ Len(normalized.messages) = 1
                       /\ normalized.messages[1].role = "assistant"
                       /\ Lines(normalized.messages[1].content) = TextsOf(serverMsg.content)
                  ELSE normalized.messages = <<>>

C21_Witness ==
    /\ serverMsg = Assistant(<<Block("text", <<"a">>), Block("thinking", <<"t">>),
                               Block("text", <<"b", "c">>)>>)
    /\ normalized.messages = <<AssistantMessage(ConversationId, <<"a", "\n", "b", "c">>)>>

\* -------------------------------------- streams as the server sent them
StreamLogPayloads ==
    { StreamEvent("content_block_start"),
      Delta("text_delta", <<"a">>, <<>>),
      Delta("thinking_delta", <<>>, <<"b">>),
      StreamEvent("content_block_stop") }

\* the log after payload p arrived on socket s
LogAfter(log, s, p) ==
    LET seen == [log EXCEPT !.wasOpen = log.open, !.wasMarked = log.marked,
                            !.wasDone = log.done]
    IN IF IsStreamEvent(p, "content_block_start")
       THEN [seen EXCEPT !.open = TRUE, !.marked = <<>>, !.socks = <<>>]
       ELSE IF IsNonEmptyDelta(p)
       THEN [seen EXCEPT !.marked = Append(@, DeltaText(p)), !.socks = Append(@, s)]
       ELSE IF IsStreamEvent(p, "content_block_stop")
       THEN [seen EXCEPT !.open = FALSE, !.marked = <<>>, !.socks = <<>>,
                         !.done = <<log.marked>>]
       ELSE seen

\* A payload arrives on socket s, and is logged as sent.
StreamFrame(s, p) ==
    /\ ServerFrame(s, p)
    /\ streamLog' = LogAfter(streamLog, s, p)
    /\ UNCHANGED <<chatVars, configVars, tokenVars, serverMsg, normalized, upset,
                   requestAccess, callAccess, callSource,
                   cachedBy, stale>>

\* The transport with listeners, reconnects and stream events in any order.
NextStream ==
    \/ Len(sockets) < SendSockets /\ Connect /\ UNCHANGED otherVars
    \/ \E s \in 1..Len(sockets) : SocketOpen(s) /\ UNCHANGED otherVars
    \/ \E s \in 1..Len(sockets) : SocketClose(s) /\ UNCHANGED otherVars
    \/ Disconnect /\ UNCHANGED otherVars
    \/ \E args \in ListenerArgs : nextListenerId <= 2 /\ OnMessage(args) /\ UNCHANGED otherVars
    \/ \E s \in 1..Len(sockets), p \in StreamLogPayloads : StreamFrame(s, p)

SpecStream == Init /\ [][NextStream]_vars

NoStreamOpen == ~streamLog.wasOpen /\ streamLog.wasMarked = <<>>

\* C22: a delta that arrives when no stream is open (no start and no delta since
\* the latest stop) accumulates from the empty string: the buffer holds just its
\* text and onChunk is given just its text; a stop that arrives when no stream is
\* open gives every listener onComplete (where registered) and then one assistant
\* message with empty content; neither calls onError nor throws.
C22_OrphanStreamEvents ==
    NoStreamOpen =>
        /\ IsNonEmptyDelta(lastFrame) =>
               /\ BufferContent(streamBuffer, conversationId) = DeltaText(lastFrame)
               /\ ~thrown
               /\ \A l \in 1..Len(listeners) :
                      CallsTo(notified, listeners[l].id) =
                          IF "onChunk" \in listeners[l].streamCallbacks
                          THEN << <<"onChunk", "none", DeltaText(lastFrame)>> >> ELSE <<>>
        /\ IsStreamEvent(lastFrame, "content_block_stop") =>
               /\ ~thrown
               /\ \A l \in 1..Len(listeners) :
                      CallsTo(notified, listeners[l].id) = StreamCallsDue(listeners[l], <<>>)

C22_Witness ==
    /\ NoStreamOpen
    /\ IsStreamEvent(lastFrame, "content_block_stop")
    /\ streamLog.done = <<<<>>>>
    /\ Len(listeners) = 2
    /\ listeners[2].streamCallbacks = StreamCallbackNames
    /\ Len(notified) = 3

\* the main-callback invocations in `notes`
MainNotes(notes) == SelectSeq(notes, LAMBDA n : n.kind = "callback")

\* C23: the stream buffer holds at most one entry, under the key of the connected
\* conversation, and that entry is the concatenation of the deltas received since
\* the most recent start or stop: a start leaves an empty entry, a stop leaves no
\* entry, and the message a stop produces carries exactly the deltas received
\* since the start or stop before it, never text of a stream stopped earlier.
C23_BufferIsCurrentStream ==
    /\ DOMAIN streamBuffer \subseteq {getKey(conversationId)}
    /\ BufferContent(streamBuffer, conversationId) = Concat(streamLog.marked)
    /\ IsStreamEvent(lastFrame, "content_block_start") =>
           streamBuffer = [k \in {getKey(conversationId)} |-> <<>>]
    /\ IsStreamEvent(lastFrame, "content_block_stop") =>
           /\ DOMAIN streamBuffer = {}
           /\ Len(MainNotes(notified)) = Len(listeners)
           /\ \A i \in 1..Len(MainNotes(notified)) :
                  MainNotes(notified)[i].text = Concat(streamLog.wasMarked)

\* a second stream is stopped with its own delta after a first stream with
\* another one, and two listeners are given the message
C23_Witness ==
    /\ IsStreamEvent(lastFrame, "content_block_stop")
    /\ streamLog.wasMarked = <<<<"b">>>>
    /\ streamLog.wasDone = <<<<<<"a">>>>>>
    /\ Len(listeners) = 2
    /\ \A i \in 1..2 : MainNotes(notified)[i].text = <<"b">>
    /\ stream.phase = "done"

\* ------------------------------------------------ disconnect and reconnect
\* C28: a disconnect() that drops the socket reference changes nothing but that
\* reference, the socket it closes and the heartbeat timer: the listeners, the
\* listener id counter, the stream buffer, the pending calls and the retry counter
\* stay as they were; so every registered listener is still given the frames of a
\* later connection, and a delta received after a reconnect without a new start
\* is appended to the text accumulated before the disconnect.
C28_DisconnectKeepsRegistryAndBuffer ==
    /\ [][(ws # 0 /\ ws' = 0) =>
              /\ UNCHANGED <<listeners, nextListenerId, streamBuffer, calls,
                             currentRetry, conversationId>>
              /\ \A s \in 1..Len(sockets) : s # ws => sockets'[s] = sockets[s]
              /\ sockets'[ws] = Closed(sockets[ws])]_vars
    /\ [](IsNonEmptyDelta(lastFrame) =>
              /\ BufferContent(streamBuffer, conversationId)
                     = Concat(streamLog.wasMarked) \o DeltaText(lastFrame)
              /\ \A l \in 1..Len(listeners) :
                     "onChunk" \in listeners[l].streamCallbacks =>
                         CallsTo(notified, listeners[l].id)
                             = << <<"onChunk", "none", DeltaText(lastFrame)>> >>)

\* the first delta arrived on socket 1, which disconnect() then closed; the second
\* arrived on the socket of the next connect() and was appended, and the listener
\* registered at the start was given it
C28_Witness ==
    /\ Len(sockets) = 2
    /\ sockets[1].state = "CLOSING"
    /\ ws = 2
    /\ streamLog.marked = <<<<"a">>, <<"b">>>>
    /\ streamLog.socks = <<1, 2>>
    /\ BufferContent(streamBuffer, conversationId) = <<"a", "b">>
    /\ Len(listeners) = 1
    /\ listeners[1].id = 1
    /\ CallsTo(notified, 1) = << <<"onChunk", "none", <<"b">>>> >>

\* ------------------------------------- listeners that throw or re-enter
Threw(message) == [notes |-> <<>>, threw |-> TRUE, message |-> message]

\* this.listeners.forEach((listener) => listener.<kind>(...)) when the callback
\* `bad.on` of listener `bad.by` throws: forEach stops at the exception
RECURSIVE Deliver(_, _, _)
Deliver(ls, call, bad) ==
    IF Len(ls) = 0 THEN [notes |-> <<>>, threw |-> FALSE, message |-> <<>>]
    ELSE IF ~Has(Head(ls), call.kind) THEN Deliver(Tail(ls), call, bad)
    ELSE LET note == [call EXCEPT !.lid = Head(ls).id]
         IN IF bad.kind = "throw" /\ bad.by = Head(ls).id /\ bad.on = call.kind
            THEN [Threw(<<"listener failed">>) EXCEPT !.notes = <<note>>]
            ELSE LET rest == Deliver(Tail(ls), call, bad)
                 IN [rest EXCEPT !.notes = <<note>> \o rest.notes]

\* fan-outs one after the other, up to the first exception
RECURSIVE DeliverAll(_, _, _)
DeliverAll(ls, stages, bad) ==
    IF Len(stages) = 0 THEN [notes |-> <<>>, threw |-> FALSE, message |-> <<>>]
    ELSE LET first == Deliver(ls, Head(stages), bad)
         IN IF first.threw THEN first
            ELSE LET rest == DeliverAll(ls, Tail(stages), bad)
                 IN [rest EXCEPT !.notes = first.notes \o rest.notes]

\* a try body that ended in `body`, followed by its catch block, which tells
\* every listener's onError and may itself throw
Caught(body, ls, error, bad) ==
    IF ~body.threw THEN body
    ELSE LET told == Deliver(ls, error, bad)
         IN [told EXCEPT !.notes = body.notes \o told.notes]

\* the fan-outs of the try body of handleStreamEvent
StreamStages(event, buf, conv) ==
    IF event.etype = "content_block_delta" /\ event.hasDelta /\ DeltaChunk(event) # <<>>
    THEN <<ChunkCall(ChunkArgument(DeltaChunk(event),
               BufferContent(BufferAppend(buf, conv, DeltaChunk(event)), conv)))>>
    ELSE IF event.etype = "content_block_stop"
    THEN <<CompleteCall, MainCall(AssistantMessage(conv, BufferContent(buf, conv)))>>
    ELSE <<>>

handleStreamEventThrowing(event, ls, buf, conv, bad) ==
    LET body == IF ~event.hasEvent THEN Threw(TypeErrorText)
                ELSE DeliverAll(ls, StreamStages(event, buf, conv), bad)
    IN Caught(body, ls, StreamError(body.message, conv), bad)

\* handleMessage when a listener callback throws: what each listener was called
\* with, the buffer, and whether an exception leaves the handler
handleMessageThrowing(data, ls, buf, conv, bad) ==
    LET body ==
            IF data.json = "invalid" THEN Threw(SyntaxErrorText)
            ELSE IF data.json = "null" THEN Threw(TypeErrorText)
            ELSE IF data.type = "stream_event"
            THEN handleStreamEventThrowing(data, ls, buf, conv, bad)
            ELSE IF data.type = "system"
            THEN DeliverAll(ls, <<SystemCall(SystemInfo(data))>>, bad)
            ELSE LET r == normalize(data, conv)
                 IN IF r.error THEN Threw(r.message)
                    ELSE DeliverAll(ls, [i \in 1..Len(r.messages) |-> MainCall(r.messages[i])],
                                    bad)
        done == Caught(body, ls, ParseError(body.message, data), bad)
    IN [notes |-> done.notes,
        buffer |-> handleMessage(data, ls, buf, conv).buffer,
        thrown |-> done.threw]

\* content_block_stop when the callback `re.on` of listener `re.by` unsubscribes
\* listener `re.target` or registers a listener: forEach walks the array it was
\* called on, up to the length that array had; unsubscribing replaces
\* this.listeners by a filtered copy, registering pushes onto the same array
ReenteredListeners(ls, nextId, re) ==
    IF re.by \notin {ls[i].id : i \in 1..Len(ls)} THEN ls
    ELSE IF re.kind = "unsubscribe" THEN Filtered(ls, re.target)
    ELSE Pushed(ls, nextId, [callback |-> "f", streamCallbacks |-> StreamCallbackNames])

handleStopReentrant(ls, buf, conv, nextId, re) ==
    LET message == AssistantMessage(conv, BufferContent(buf, conv))
        after == ReenteredListeners(ls, nextId, re)
    IN [notes |-> Broadcast(ls, CompleteCall)
                  \o Broadcast(IF re.on = "onComplete" THEN after ELSE ls, MainCall(message)),
        buffer |-> BufferComplete(buf, conv),
        listeners |-> after]

Throws(ls) ==
    {[NoUpset EXCEPT !.kind = "throw", !.by = ls[i].id, !.on = on] :
        i \in 1..Len(ls), on \in StreamCallbackNames \cup {"callback"}}

Reentries(ls, nextId) ==
    {[NoUpset EXCEPT !.kind = "unsubscribe", !.by = ls[i].id, !.on = on, !.target = ls[j].id] :
        i \in 1..Len(ls), j \in 1..Len(ls), on \in {"onComplete", "callback"}}
    \cup (IF nextId > MaxListeners THEN {}
          ELSE {[NoUpset EXCEPT !.kind = "register", !.by = ls[i].id, !.on = on] :
                   i \in 1..Len(ls), on \in {"onComplete", "callback"}})

UpsetPayloads ==
    { StreamEvent("content_block_start"),
      Delta("text_delta", <<"a">>, <<>>),
      StreamEvent("content_block_stop"),
      Assistant(<<Block("text", <<"h", "i">>)>>),
      Result("error", FALSE, <<"b", "a", "d">>),
      [Blank EXCEPT !.type = "stream_event"],
      [Blank EXCEPT !.type = "system",
                    !.sys = [session_id |-> "s1", model |-> "m1", seaverse_version |-> "v1",
                             agents |-> "", tools |-> "", skills |-> "", cwd |-> ""]] }

\* A payload arrives on socket s and a listener callback throws while it is
\* handled (u.kind = "throw"), or none does (u = NoUpset).
FrameThrowing(s, p, u) ==
    /\ sockets[s].state = "OPEN"
    /\ LET h == handleMessageThrowing(p, listeners, streamBuffer, conversationId, u)
       IN /\ Len(BufferContent(h.buffer, conversationId)) <= MaxText
          /\ streamBuffer' = h.buffer
          /\ notified' = h.notes
          /\ thrown' = h.thrown
    /\ lastFrame' = p
    /\ stream' = Idle
    /\ upset' = [u EXCEPT !.ids = {listeners[i].id : i \in 1..Len(listeners)}]
    /\ UNCHANGED <<connVars, registryVars, sendVars, session, unknownSeen>>
    /\ UNCHANGED <<chatVars, configVars, tokenVars, serverMsg, normalized, streamLog,
                   requestAccess, callAccess, callSource,
                   cachedBy, stale>>

\* A content_block_stop arrives on socket s and a listener callback unsubscribes
\* a listener or registers one while it is handled.
StopReentrant(s, u) ==
    /\ sockets[s].state = "OPEN"
    /\ LET h == handleStopReentrant(listeners, streamBuffer, conversationId,
                                    nextListenerId, u)
       IN /\ streamBuffer' = h.buffer
          /\ notified' = h.notes
          /\ listeners' = h.listeners
    /\ nextListenerId' = IF u.kind = "register" THEN nextListenerId + 1 ELSE nextListenerId
    /\ released' = IF u.kind = "unsubscribe" THEN released \cup {u.target} ELSE released
    /\ twice' = (twice \/ (u.kind = "unsubscribe" /\ u.target \in released))
    /\ thrown' = FALSE
    /\ lastFrame' = StreamEvent("content_block_stop")
    /\ stream' = Idle
    /\ upset' = [u EXCEPT !.ids = {listeners[i].id : i \in 1..Len(listeners)}]
    /\ UNCHANGED <<connVars, sendVars, session, unknownSeen>>
    /\ UNCHANGED <<chatVars, configVars, tokenVars, serverMsg, normalized, streamLog,
                   requestAccess, callAccess, callSource,
                   cachedBy, stale>>

\* The transport on one connection, with listeners whose callbacks may throw,
\* unsubscribe or register.
NextUpset ==
    \/ Len(sockets) < FewSockets /\ Connect /\ UNCHANGED otherVars
    \/ \E s \in 1..Len(sockets) : SocketOpen(s) /\ UNCHANGED otherVars
    \/ /\ OnMessage([callback |-> "f", streamCallbacks |-> StreamCallbackNames])
       /\ upset' = NoUpset
       /\ UNCHANGED <<chatVars, configVars, tokenVars, serverMsg, normalized, streamLog,
                      requestAccess, callAccess, callSource, cachedBy, stale>>
    \/ \E id \in 1..MaxListeners :
           /\ Unsubscribe(id)
           /\ upset' = NoUpset
           /\ UNCHANGED <<chatVars, configVars, tokenVars, serverMsg, normalized,
                          streamLog, requestAccess, callAccess, callSource, cachedBy,
                          stale>>
    \/ \E s \in 1..Len(sockets), p \in UpsetPayloads, u \in {NoUpset} \cup Throws(listeners) :
           FrameThrowing(s, p, u)
    \/ \E s \in 1..Len(sockets), u \in Reentries(listeners, nextListenerId) :
           StopReentrant(s, u)

SpecUpset == Init /\ [][NextUpset]_vars

\* listeners that return normally are served as handleMessage describes
UpsetAgrees ==
    \A s \in 1..Len(sockets), p \in UpsetPayloads :
        LET h == handleMessageThrowing(p, listeners, streamBuffer, conversationId, NoUpset)
            g == handleMessage(p, listeners, streamBuffer, conversationId)
        IN h.notes = g.notes /\ h.buffer = g.buffer /\ h.thrown = g.thrown

\* the callback that threw was invoked
ThrowHappened ==
    /\ upset.kind = "throw"
    /\ \E i \in 1..Len(notified) : notified[i].lid = upset.by /\ notified[i].kind = upset.on

\* C26 as claimed: when a listener's callback throws during a fan-out, every
\* listener registered when the frame arrived is still given that callback, and no
\* exception leaves the message handler.
C26_ThrowingListenerIsolated ==
    ThrowHappened =>
        /\ ~thrown
        /\ \A id \in upset.ids :
               \E i \in 1..Len(notified) : notified[i].lid = id /\ notified[i].kind = upset.on

\* C27 as claimed: when a callback unsubscribes or registers a listener while a
\* content_block_stop is handled, the listeners given onComplete are the listeners
\* given the main callback, and they are the listeners registered when the frame
\* arrived.
C27_ReentrySameRecipients ==
    upset.kind \in {"unsubscribe", "register"} =>
        /\ {n.lid : n \in {notified[i] : i \in {j \in 1..Len(notified) : notified[j].kind = "onComplete"}}}
               = upset.ids
        /\ {n.lid : n \in {notified[i] : i \in {j \in 1..Len(notified) : notified[j].kind = "callback"}}}
               = upset.ids

\* ---------------------------------- the token module with several users
\* config.accessToken: the token of one of two users
AccessTokens == {"A", "B"}

\* getUrlSessionToken({accessToken}), with the request that answers the call
GetUrlSessionTokenFor(accessToken) ==
    /\ GetUrlSessionToken(accessToken # "")
    /\ callAccess' = Append(callAccess, accessToken)
    /\ callSource' = Append(callSource,
           IF accessToken = "" THEN 0
           ELSE IF CacheValid(cachedToken, cacheExpiry, now) THEN cachedBy
           ELSE IF pendingRequest # 0 THEN pendingRequest
           ELSE Len(requests) + 1)
    /\ requestAccess' = IF Len(requests') > Len(requests)
                        THEN Append(requestAccess, accessToken) ELSE requestAccess
    /\ UNCHANGED <<cachedBy, stale, serverMsg, normalized, streamLog, upset>>

\* request r ends; a 401 or 403 clears the cache while other requests fly
RequestDoneFor(r, outcome) ==
    /\ RequestDone(r, outcome)
    /\ cachedBy' = IF outcome.kind = "token" THEN r
                   ELSE IF outcome.kind = "auth" THEN 0 ELSE cachedBy
    /\ stale' = IF outcome.kind = "auth" THEN stale \cup (InFlight(requests) \ {r})
                ELSE stale
    /\ UNCHANGED <<requestAccess, callAccess, callSource, serverMsg, normalized,
                   streamLog, upset>>

\* clearUrlSessionTokenCache() is called while requests may be in flight
ClearWhileFlying ==
    /\ clearUrlSessionTokenCache
    /\ cachedBy' = 0
    /\ stale' = stale \cup InFlight(requests)
    /\ UNCHANGED <<requestAccess, callAccess, callSource, serverMsg, normalized,
                   streamLog, upset>>

NextTokenUsers ==
    \/ \E accessToken \in AccessTokens : GetUrlSessionTokenFor(accessToken)
    \/ \E r \in 1..Len(requests), outcome \in Outcomes : RequestDoneFor(r, outcome)
    \/ ClearWhileFlying
    \/ Tick /\ UNCHANGED lateVars

SpecTokenUsers == Init /\ [][NextTokenUsers]_vars

\* C29 as claimed: a getUrlSessionToken call is answered only by a request that
\* was made with the call's own access token, whether the answer is the cached
\* token or the promise of the request in flight.
C29_TokenPerAccessToken ==
    \A i \in 1..Len(callSource) :
        callSource[i] # 0 => requestAccess[callSource[i]] = callAccess[i]

\* C30 as claimed: a request that was in flight when the cache was cleared never
\* stores its token in the cache, and no call is answered from the cache with the
\* token of such a request.
C30_ClearDropsRequestsInFlight ==
    /\ cachedToken # <<>> => cachedBy \notin stale
    /\ \A i \in 1..Len(callSource) :
           tokenCalls[i].how = "cache" => callSource[i] \notin stale

====
